---- MODULE Spec2Model ----
(***************************************************************************)
(* A model of the dictionary mirror: the downloader                        *)
(* (scripts/download_dictionary.py), the update checker                    *)
(* (scripts/check_updates.py) and the query engine                         *)
(* (scripts/query_dictionary.py).                                          *)
(*                                                                         *)
(* Strings that the code takes apart (version tokens, words, paths) are    *)
(* sequences: a token is a sequence of digits, a word a sequence of        *)
(* one-character strings, a path a sequence of components.                 *)
(***************************************************************************)
EXTENDS Integers, Sequences, FiniteSets, TLC

VARIABLES
    listing,        \* remote: page of each dictionary -> set of version tokens on it
    metaFile,       \* metadata.json on disk: [state, doc]
    dirs,           \* directories created under the storage root
    files,          \* regular files written anywhere (absolute paths)
    tmpFiles,       \* invocations whose temporary archive file exists
    now,            \* the clock read by datetime.utcnow()
    ncalls,         \* number of invocations started so far
    active,         \* the invocations that run (one, or two concurrent ones)
    pc,             \* per invocation: position in update_dictionary
    dict_name,      \* per invocation: argument dict_name
    force,          \* per invocation: argument force
    html,           \* per invocation: the tokens on the listing page it fetched
    latest_version, \* per invocation: local latest_version
    metadata,       \* per invocation: local metadata (the loaded document)
    result,         \* per invocation: what the call returned or raised
    downloads,      \* per invocation: archive downloads issued by the current call
    metaBefore,     \* per invocation: metaFile when the current call started
    repeat,         \* per invocation: the call repeats a successful one, remote unchanged
    archive,        \* per invocation: the members of the archive the call downloaded
    checkResult,    \* what the last compare_versions returned
    allResult,      \* what the last check_all returned
    halfWritten,    \* the directories an extractall left part-way through
    cause,          \* per invocation and for the checker: how the last resolution ended
    requests,       \* the network requests issued so far, each with its TLS context
    df,             \* query engine: the rows of the loaded table
    word_index,     \* query engine: normalized word -> row position, in insertion order
    qresult,        \* query engine: what the last query returned
    asked_full,     \* query engine: the full flag of the last query
    preferred_encoding, \* the encoding open() uses when none is given (the locale's)
    metadata_json,  \* metadata.json as the bytes save_metadata wrote
    save_arg,       \* the document save_metadata was given
    load_ret,       \* what load_metadata returned for those bytes
    sheet_columns,  \* df.columns as read from the sheet
    columns         \* df.columns after _normalize_columns, each with its source

vars == <<listing, metaFile, dirs, files, tmpFiles, now, ncalls,
          active, pc, dict_name, force, html, latest_version, metadata, result,
          downloads, metaBefore, repeat, archive, checkResult, allResult,
          halfWritten, cause, requests, df, word_index, qresult, asked_full,
          preferred_encoding, metadata_json, save_arg, load_ret, sheet_columns, columns>>

queryVars == <<df, word_index, qresult, asked_full>>

fileVars == <<preferred_encoding, metadata_json, save_arg, load_ret>>

columnVars == <<sheet_columns, columns>>

updateVars == <<listing, metaFile, dirs, files, tmpFiles, now, ncalls, active, pc,
                dict_name, force, html, latest_version, metadata, result, downloads,
                metaBefore, repeat, archive, checkResult, allResult,
                halfWritten, cause, requests>>

(***************************************************************************)
(* Bounds of the model.                                                    *)
(***************************************************************************)
MaxCalls == 2

Procs == {"p1", "p2"}

(***************************************************************************)
(* Version tokens: 8-digit date strings, as sequences of digits.           *)
(***************************************************************************)
NoVersion == <<>>

Tokens ==
    { <<2,0,2,3,1,1,0,5>>, <<2,0,2,4,0,1,0,5>> }

\* Python's str < str on two digit strings: lexicographic, a proper prefix first.
RECURSIVE LexLess(_, _)
LexLess(a, b) ==
    IF b = <<>> THEN FALSE
    ELSE IF a = <<>> THEN TRUE
    ELSE IF Head(a) # Head(b) THEN Head(a) < Head(b)
    ELSE LexLess(Tail(a), Tail(b))

\* A variant that forgets reverse=True: sorted(matches)[0]
LexMin(S) == CHOOSE t \in S : \A u \in S : u = t \/ LexLess(t, u)

\* sorted(matches, reverse=True)[0]
LexMax(S) == CHOOSE t \in S : \A u \in S : u = t \/ LexLess(u, t)

(***************************************************************************)
(* Paths.  A component is [n, v, x]: a name, an embedded version token     *)
(* (NoVersion when the name has none) and an extension.                    *)
(***************************************************************************)
Comp(n, v, x) == [n |-> n, v |-> v, x |-> x]
Name(n) == Comp(n, NoVersion, "")
DotDot == Name("..")
Dot == Name(".")

storage_path == << Name("storage") >>

\* Path.resolve() on a path without symbolic links: "." dropped, ".." pops.
RECURSIVE resolve_from(_, _)
resolve_from(acc, parts) ==
    IF parts = <<>> THEN acc
    ELSE IF Head(parts) = Dot THEN resolve_from(acc, Tail(parts))
    ELSE IF Head(parts) = DotDot
         THEN resolve_from(IF acc = <<>> THEN acc ELSE SubSeq(acc, 1, Len(acc) - 1),
                           Tail(parts))
    ELSE resolve_from(Append(acc, Head(parts)), Tail(parts))

resolve(parts) == resolve_from(<<>>, parts)

IsPrefix(p, q) == Len(p) <= Len(q) /\ SubSeq(q, 1, Len(p)) = p
StrictlyInside(q, dir) == IsPrefix(dir, q) /\ Len(q) > Len(dir)

\* extract_to / zip_path: joining an absolute path replaces the left operand.
join_path(extract_to, zip_path) ==
    IF zip_path.abs THEN zip_path.parts ELSE extract_to \o zip_path.parts

validate_zip_path_always_true(zip_path, extract_to) == TRUE

validate_zip_path(zip_path, extract_to) ==
    LET target == resolve(join_path(extract_to, zip_path))
        extract_to_resolved == resolve(extract_to)
    IN  IsPrefix(extract_to_resolved, target)

(***************************************************************************)
(* The configured sources of the downloader.                               *)
(***************************************************************************)
SOURCES == {"concised", "revised"}

extract_folder_pattern(d, version) ==
    IF d = "concised" THEN Comp("dict_concised_2014_", version, "")
    ELSE Comp("dict_revised_2014_", version, "")

xlsx_filename(d) ==
    IF d = "concised" THEN Comp("dict_concised_2014", NoVersion, ".xlsx")
    ELSE Comp("dict_revised_2014", NoVersion, ".xlsx")

versioned_filename(version) == Comp("dict_concised_2014_", version, ".xlsx")

\* self.storage_path / extract_folder
extract_path_of(d, version) == Append(storage_path, extract_folder_pattern(d, version))

\* The dictionary ids of the checker.
DICTIONARIES == {"concised", "revised", "idiom", "mini"}

\* Identifiers a caller passes to the update command and to the check command.
UpdateNames == SOURCES \cup {"idiom"}
CheckNames == DICTIONARIES \cup {"bogus"}

(***************************************************************************)
(* Archives served by the remote: sequences of members [abs, parts].       *)
(***************************************************************************)
Rel(parts) == [abs |-> FALSE, parts |-> parts]
Abs(parts) == [abs |-> TRUE, parts |-> parts]

OtherXlsx == Comp("other", NoVersion, ".xlsx")
Readme == Comp("readme", NoVersion, ".txt")

\* The table file named after the archive of dictionary d (dict_<d>_2014_<version>).
own_versioned_filename(d, version) ==
    Comp(extract_folder_pattern(d, version).n, version, ".xlsx")

Archives(d, version) ==
    { << Rel(<< versioned_filename(version) >>) >>,
      << Rel(<< own_versioned_filename(d, version) >>), Rel(<< xlsx_filename(d) >>) >>,
      << Rel(<< xlsx_filename(d) >>), Rel(<< Name("sub"), DotDot, Readme >>) >>,
      << Rel(<< OtherXlsx >>) >>,
      << Rel(<< Name("sub"), OtherXlsx >>) >>,
      << Rel(<< xlsx_filename(d) >>), Rel(<< DotDot, Name("evil") >>) >>,
      << Abs(<< Name("evil") >>) >> }

(***************************************************************************)
(* The file system.                                                        *)
(***************************************************************************)
IsDir(fs, ds, path) ==
    \/ path \in ds
    \/ IsPrefix(path, storage_path)
    \/ \E f \in fs : StrictlyInside(f, path)

Exists(fs, ds, path) == path \in fs \/ IsDir(fs, ds, path)

\* zipfile.ZipFile._extract_member: the drive and leading slashes are dropped and
\* the components "", "." and ".." are removed before joining with the target.
member_target(extract_path, member) ==
    extract_path \o SelectSeq(member.parts, LAMBDA c : c # Dot /\ c # DotDot)

\* open(targetpath, "wb") after creating the parent directories.
CanWrite(fs, ds, target) ==
    /\ ~IsDir(fs, ds, target)
    /\ \A i \in 1..(Len(target) - 1) : SubSeq(target, 1, i) \notin fs

\* extractall(): the members are written in order; the first one that cannot be
\* written, or an I/O error after `upto` members, ends it with what was written.
RECURSIVE extractall_from(_, _, _, _, _)
extractall_from(fs, ds, extract_path, members, upto) ==
    IF members = <<>> THEN [files |-> fs, ok |-> TRUE]
    ELSE IF upto = 0 \/ ~CanWrite(fs, ds, member_target(extract_path, Head(members)))
         THEN [files |-> fs, ok |-> FALSE]
    ELSE extractall_from(fs \cup {member_target(extract_path, Head(members))}, ds,
                         extract_path, Tail(members), upto - 1)

extractall(fs, ds, extract_path, members, upto) ==
    extractall_from(fs, ds, extract_path, members, upto)

\* extractall() wrote at least one member before it ended.
wrote_some(fs, ds, extract_path, members, upto) ==
    /\ members # <<>>
    /\ upto >= 1
    /\ CanWrite(fs, ds, member_target(extract_path, Head(members)))

\* extract_path.glob('*.xlsx'): the entries directly under extract_path.
glob_xlsx(fs, ds, extract_path) ==
    { SubSeq(f, 1, Len(extract_path) + 1) :
        f \in { g \in fs \cup ds : StrictlyInside(g, extract_path)
                                   /\ g[Len(extract_path) + 1].x = ".xlsx" } }

\* The payload paths download_and_extract may settle on (empty: FileNotFoundError).
find_xlsx(fs, ds, d, version, extract_path) ==
    LET xlsx_candidates == << Append(extract_path, versioned_filename(version)),
                              Append(extract_path, xlsx_filename(d)) >>
        xlsx_files == glob_xlsx(fs, ds, extract_path)
    IN  IF Exists(fs, ds, xlsx_candidates[1]) THEN { xlsx_candidates[1] }
        ELSE IF Exists(fs, ds, xlsx_candidates[2]) THEN { xlsx_candidates[2] }
        ELSE xlsx_files

(***************************************************************************)
(* The metadata store.                                                     *)
(***************************************************************************)
EmptyDoc == [d \in {} |-> 0]

NoFile == [state |-> "absent", doc |-> EmptyDoc]
Truncated == [state |-> "truncated", doc |-> EmptyDoc]
Stored(doc) == [state |-> "ok", doc |-> doc]

\* load_metadata: {} when the file is missing or does not parse.
load_metadata == IF metaFile.state = "ok" THEN metaFile.doc ELSE EmptyDoc

\* metadata.get(dict_name, {}).get('version')
local_version_of(doc, d) == IF d \in DOMAIN doc THEN doc[d].version ELSE NoVersion

VersionRecord(version, timestamp, extract_path, filename) ==
    [version |-> version, downloaded_at |-> timestamp,
     path |-> extract_path, filename |-> filename]

\* metadata[dict_name] = {...}
put(doc, d, rec) == [k \in DOMAIN doc \cup {d} |-> IF k = d THEN rec ELSE doc[k]]

(***************************************************************************)
(* Results of update_dictionary: the returned dict, or the exception that  *)
(* left it (raised = TRUE).                                                *)
(***************************************************************************)
NoPath == <<>>

NoResult ==
    [success |-> FALSE, status |-> "none", error |-> "", raised |-> FALSE,
     version |-> NoVersion, xlsx_path |-> NoPath, extract_path |-> NoPath,
     timestamp |-> 0]

Returned(success, status, error, version) ==
    [NoResult EXCEPT !.success = success, !.status = status, !.error = error,
                     !.version = version]

Raised(error) == [NoResult EXCEPT !.status = "failed", !.error = error, !.raised = TRUE]

Extracted(version, xlsx_path, extract_path, timestamp) ==
    [NoResult EXCEPT !.success = TRUE, !.status = "downloaded", !.version = version,
                     !.xlsx_path = xlsx_path, !.extract_path = extract_path,
                     !.timestamp = timestamp]

(***************************************************************************)
(* The remote.                                                             *)
(***************************************************************************)
\* The publisher changes the listing page of one dictionary (between invocations:
\* a call reads the page once, and a change after the last call is never read).
\* urlopen without a context argument: the default HTTPS handler verifies the
\* certificate chain and the host name.
default_context == [check_hostname |-> TRUE, verify_mode |-> "CERT_REQUIRED"]

\* check_updates.py lines 31-33: the module-level context.
ssl_context == [check_hostname |-> FALSE, verify_mode |-> "CERT_NONE"]

\* How a resolution ends: the identifier is not configured, the page cannot be
\* fetched, the pattern matches nothing on it, or a token is found.
resolution_kind(known, page, reachable) ==
    IF ~known THEN "unknown"
    ELSE IF ~reachable THEN "network"
    ELSE IF page = {} THEN "not_found"
    ELSE "token"

\* One urlopen call.
Request(by, context) == [by |-> by, context |-> context]

RemoteChange(d, S) ==
    /\ \A p \in Procs : pc[p] = "idle"
    /\ ncalls < MaxCalls
    /\ listing[d] # S
    /\ listing' = [listing EXCEPT ![d] = S]
    /\ UNCHANGED <<queryVars, columnVars, fileVars, cause, halfWritten, requests, allResult,
                   metaFile, dirs, files, tmpFiles, now, ncalls, active, pc, dict_name, force,
                   html, latest_version, metadata, result, downloads, metaBefore, repeat,
                   archive, checkResult>>

(***************************************************************************)
(* DictionaryDownloader.update_dictionary, step by step.                   *)
(***************************************************************************)
\* The page and pattern DictionaryDownloader.get_latest_version reads for dict_name.
downloader_page(d) == "concised"

\* main(): one invocation of the update command.
Start(p, d, f) ==
    /\ p \in active
    /\ pc[p] = "idle"
    /\ ncalls < MaxCalls
    /\ ncalls' = ncalls + 1
    /\ pc' = [pc EXCEPT ![p] = "resolve"]
    /\ dict_name' = [dict_name EXCEPT ![p] = d]
    /\ force' = [force EXCEPT ![p] = f]
    /\ latest_version' = [latest_version EXCEPT ![p] = NoVersion]
    /\ metadata' = [metadata EXCEPT ![p] = EmptyDoc]
    /\ result' = [result EXCEPT ![p] = NoResult]
    /\ downloads' = [downloads EXCEPT ![p] = 0]
    /\ metaBefore' = [metaBefore EXCEPT ![p] = metaFile]
    /\ repeat' = [repeat EXCEPT ![p] =
                    /\ result[p].success
                    /\ dict_name[p] = d
                    /\ html[p] = listing[downloader_page(d)]]
    /\ archive' = [archive EXCEPT ![p] = <<>>]
    /\ cause' = [cause EXCEPT ![p] = "none"]
    /\ UNCHANGED <<queryVars, columnVars, fileVars, halfWritten, requests, allResult, listing,
                   metaFile, dirs, files, tmpFiles, now, active, html, checkResult>>

\* get_latest_version: the token, or NoVersion for None.
get_latest_version(d, reachable) ==
    IF reachable /\ listing[downloader_page(d)] # {}
    THEN LexMax(listing[downloader_page(d)])
    ELSE NoVersion

Finish(p, r) ==
    /\ pc' = [pc EXCEPT ![p] = "idle"]
    /\ result' = [result EXCEPT ![p] = r]

\* Lines 276-282: resolve the latest version.
Resolve(p) ==
    /\ pc[p] = "resolve"
    /\ \E reachable \in BOOLEAN :
         /\ cause' = [cause EXCEPT ![p] =
                        resolution_kind(dict_name[p] \in SOURCES,
                                        listing[downloader_page(dict_name[p])], reachable)]
         /\ IF dict_name[p] \notin SOURCES
            THEN /\ Finish(p, Raised("unknown_dictionary"))
                 /\ UNCHANGED <<latest_version, html>>
            ELSE LET latest == get_latest_version(dict_name[p], reachable)
                 IN  /\ html' = [html EXCEPT ![p] =
                                  IF reachable THEN listing[downloader_page(dict_name[p])]
                                  ELSE {}]
                     /\ IF latest = NoVersion
                        THEN /\ Finish(p, Returned(FALSE, "failed", "no_latest_version",
                                                   NoVersion))
                             /\ UNCHANGED latest_version
                        ELSE /\ latest_version' = [latest_version EXCEPT ![p] = latest]
                             /\ pc' = [pc EXCEPT ![p] = "load"]
                             /\ UNCHANGED result
    /\ requests' = requests \cup
          (IF dict_name[p] \in SOURCES
           THEN {Request("updater listing", default_context)}
           ELSE {})
    /\ UNCHANGED <<queryVars, columnVars, fileVars, halfWritten, allResult, listing, metaFile,
                   dirs, files, tmpFiles, now, ncalls, active, dict_name, force, metadata,
                   downloads, metaBefore, repeat, archive, checkResult>>

\* Lines 284-296: load the metadata and compare.
up_to_date_never(local_version, latest, f) == FALSE

up_to_date(local_version, latest, f) == local_version = latest /\ ~f

\* A variant that records the new version before the archive is fetched.
\* main() with --check-only (lines 328-334): the result holds dict_name and
\* latest_version only, it has no 'success' key.
CheckedOnly(version) == [NoResult EXCEPT !.status = "check_only", !.version = version]

\* main() of download_dictionary.py with --check-only: one invocation that only
\* resolves the latest version.
CheckOnly(p, d) ==
    /\ p \in active
    /\ pc[p] = "idle"
    /\ ncalls < MaxCalls
    /\ ncalls' = ncalls + 1
    /\ dict_name' = [dict_name EXCEPT ![p] = d]
    /\ \E reachable \in BOOLEAN :
         LET latest == IF d \in SOURCES THEN get_latest_version(d, reachable)
                       ELSE NoVersion
         IN  /\ cause' = [cause EXCEPT ![p] =
                            resolution_kind(d \in SOURCES, listing[downloader_page(d)],
                                            reachable)]
             /\ latest_version' = [latest_version EXCEPT ![p] = latest]
             /\ html' = [html EXCEPT ![p] =
                           IF d \in SOURCES /\ reachable
                           THEN listing[downloader_page(d)] ELSE {}]
             /\ result' = [result EXCEPT ![p] =
                             IF d \in SOURCES THEN CheckedOnly(latest)
                             ELSE Raised("unknown_dictionary")]
    /\ requests' = requests \cup
          (IF d \in SOURCES THEN {Request("updater listing", default_context)} ELSE {})
    /\ UNCHANGED <<queryVars, columnVars, fileVars, halfWritten, allResult, listing, metaFile,
                   dirs, files, tmpFiles, now, active, pc, force, metadata, downloads,
                   metaBefore, repeat, archive, checkResult>>

\* main() of download_dictionary.py, lines 340 and 342-347: the exit code for what
\* the command returned or raised; a result without 'success' counts as success.
update_exit(r) ==
    IF r.raised THEN 1
    ELSE IF r.status = "check_only" THEN 0
    ELSE IF r.success THEN 0 ELSE 1

LoadCompareAndRecord(p) ==
    /\ pc[p] = "load"
    /\ metadata' = [metadata EXCEPT ![p] = load_metadata]
    /\ IF up_to_date(local_version_of(load_metadata, dict_name[p]), latest_version[p],
                     force[p])
       THEN /\ Finish(p, Returned(TRUE, "up_to_date", "", latest_version[p]))
            /\ UNCHANGED metaFile
       ELSE /\ pc' = [pc EXCEPT ![p] = "download"]
            /\ metaFile' = Stored(put(load_metadata, dict_name[p],
                    VersionRecord(latest_version[p], now,
                                  extract_path_of(dict_name[p], latest_version[p]),
                                  xlsx_filename(dict_name[p]))))
            /\ UNCHANGED result
    /\ UNCHANGED <<queryVars, columnVars, fileVars, cause, halfWritten, requests, allResult,
                   listing, dirs, files, tmpFiles, now, ncalls, active, dict_name, force, html,
                   latest_version, downloads, metaBefore, repeat, archive, checkResult>>

LoadAndCompare(p) ==
    /\ pc[p] = "load"
    /\ metadata' = [metadata EXCEPT ![p] = load_metadata]
    /\ IF up_to_date(local_version_of(load_metadata, dict_name[p]), latest_version[p],
                     force[p])
       THEN Finish(p, Returned(TRUE, "up_to_date", "", latest_version[p]))
       ELSE /\ pc' = [pc EXCEPT ![p] = "download"]
            /\ UNCHANGED result
    /\ UNCHANGED <<queryVars, columnVars, fileVars, cause, halfWritten, requests, allResult,
                   listing, metaFile, dirs, files, tmpFiles, now, ncalls, active, dict_name,
                   force, html, latest_version, downloads, metaBefore, repeat, archive,
                   checkResult>>

(***************************************************************************)
(* DictionaryDownloader.download_and_extract.                              *)
(***************************************************************************)
\* Lines 187-198: the temporary file is created and the archive streamed into it;
\* a failed request ends in the except clause, which unlinks the file and re-raises.
\* A variant whose except handler does not remove the temporary file.
unlink_tmp_on_success_only(tmp, p, failed) == IF failed THEN tmp ELSE tmp \ {p}

\* Lines 217-218 and 256-260: os.unlink(tmp_path), after unpacking and in the
\* except handler.
unlink_tmp(tmp, p, failed) == tmp \ {p}

\* Lines 189-195: create the temporary file and download the archive into it.
Download(p) ==
    /\ pc[p] = "download"
    /\ downloads' = [downloads EXCEPT ![p] = downloads[p] + 1]
    /\ \/ /\ Finish(p, Raised("download_failed"))
          /\ tmpFiles' = unlink_tmp(tmpFiles \cup {p}, p, TRUE)
          /\ UNCHANGED archive
       \/ \E a \in Archives(dict_name[p], latest_version[p]) :
            /\ archive' = [archive EXCEPT ![p] = a]
            /\ tmpFiles' = tmpFiles \cup {p}
            /\ pc' = [pc EXCEPT ![p] = "extract"]
            /\ UNCHANGED result
    /\ requests' = requests \cup {Request("updater archive", default_context)}
    /\ UNCHANGED <<queryVars, columnVars, fileVars, cause, halfWritten, allResult, listing,
                   metaFile, dirs, files, now, ncalls, active, dict_name, force, html,
                   latest_version, metadata, metaBefore, repeat, checkResult>>

\* A variant that records the canonical file name whatever file was located.
xlsx_name_canonical(path) == xlsx_filename("concised")

\* xlsx_path.name (line 249): the last component of the located path.
xlsx_name(path) == path[Len(path)]

\* Lines 204-209: every member is validated before extractall is called.
first_member_valid(members, extract_path) ==
    validate_zip_path(members[1], extract_path)

all_members_valid(members, extract_path) ==
    \A i \in 1..Len(members) : validate_zip_path(members[i], extract_path)

\* Lines 200-261: unpack, unlink the temporary file, locate the payload.  On
\* success the caller (lines 301-308) puts the record into its copy of the document.
Extract(p) ==
    LET d == dict_name[p]
        version == latest_version[p]
        extract_path == extract_path_of(d, version)
        ds == dirs \cup {extract_path}
    IN  /\ pc[p] = "extract"
        /\ dirs' = ds
        /\ IF ~all_members_valid(archive[p], extract_path)
           THEN /\ Finish(p, Raised("unsafe_archive"))
                /\ tmpFiles' = unlink_tmp(tmpFiles, p, TRUE)
                /\ UNCHANGED <<files, now, metadata, halfWritten>>
           ELSE \E upto \in 0..Len(archive[p]) :
                  LET r == extractall(files, ds, extract_path, archive[p], upto)
                      found == find_xlsx(r.files, ds, d, version, extract_path)
                  IN  /\ files' = r.files
                      /\ tmpFiles' = unlink_tmp(tmpFiles, p, ~r.ok)
                      /\ halfWritten' =
                            IF r.ok THEN halfWritten \ {extract_path}
                            ELSE IF wrote_some(files, ds, extract_path, archive[p], upto)
                            THEN halfWritten \cup {extract_path}
                            ELSE halfWritten
                      /\ IF ~r.ok
                         THEN /\ Finish(p, Raised("extract_failed"))
                              /\ UNCHANGED <<now, metadata>>
                         ELSE IF found = {}
                         THEN /\ Finish(p, Raised("payload_not_found"))
                              /\ UNCHANGED <<now, metadata>>
                         ELSE \E xlsx_path \in found :
                                /\ now' = now + 1
                                /\ result' = [result EXCEPT ![p] =
                                     Extracted(version, xlsx_path, extract_path, now')]
                                /\ metadata' = [metadata EXCEPT ![p] =
                                     put(metadata[p], d,
                                         VersionRecord(version, now', extract_path,
                                                       xlsx_name(xlsx_path)))]
                                /\ pc' = [pc EXCEPT ![p] = "save"]
        /\ UNCHANGED <<queryVars, columnVars, fileVars, cause, requests, allResult, listing,
                       metaFile, ncalls, active, dict_name, force, html, latest_version,
                       downloads, metaBefore, repeat, archive, checkResult>>

(***************************************************************************)
(* DictionaryDownloader.save_metadata: open(..., 'w') truncates the file,  *)
(* json.dump then writes the document.                                     *)
(***************************************************************************)
\* What open(self.metadata_file, 'w') leaves on disk.
opened_for_write(file) == Truncated

SaveOpen(p) ==
    /\ pc[p] = "save"
    /\ \/ /\ metaFile' = opened_for_write(metaFile)
          /\ pc' = [pc EXCEPT ![p] = "write"]
          /\ UNCHANGED result
       \/ /\ Finish(p, Raised("save_failed"))
          /\ UNCHANGED metaFile
    /\ UNCHANGED <<queryVars, columnVars, fileVars, cause, halfWritten, requests, allResult,
                   listing, dirs, files, tmpFiles, now, ncalls, active, dict_name, force, html,
                   latest_version, metadata, downloads, metaBefore, repeat, archive,
                   checkResult>>

SaveWrite(p) ==
    /\ pc[p] = "write"
    /\ \/ /\ metaFile' = Stored(metadata[p])
          /\ pc' = [pc EXCEPT ![p] = "idle"]
          /\ UNCHANGED result
       \/ /\ Finish(p, Raised("save_failed"))
          /\ UNCHANGED metaFile
    /\ UNCHANGED <<queryVars, columnVars, fileVars, cause, halfWritten, requests, allResult,
                   listing, dirs, files, tmpFiles, now, ncalls, active, dict_name, force, html,
                   latest_version, metadata, downloads, metaBefore, repeat, archive,
                   checkResult>>

(***************************************************************************)
(* metadata.json as bytes.  save_metadata writes the document with         *)
(* open(..., 'w', encoding='utf-8') and json.dump(..., ensure_ascii=False);*)
(* load_metadata reads it with open(self.metadata_file), that is, in the   *)
(* preferred encoding of the locale.  A text is a sequence of code points, *)
(* a file a sequence of bytes.                                             *)
(***************************************************************************)
MaxText == 2

\* The characters of a path or file name: a / " \ and two outside ASCII
\* (U+00E9 and U+5B57).
Alphabet == {97, 47, 34, 92, 233, 23383}

Texts == UNION { [1..n -> Alphabet] : n \in 0..MaxText }

\* The encodings open() may fall back to: UTF-8, or a single-byte ANSI code page.
Encodings == {"utf-8", "cp1252"}

\* json.encoder.py_encode_basestring: the quote and the backslash are escaped and
\* the text is put between quotes; with ensure_ascii=False every other character
\* of the alphabet is written as it is.
RECURSIVE escaped(_)
escaped(s) ==
    IF s = <<>> THEN <<>>
    ELSE (IF Head(s) \in {34, 92} THEN <<92, Head(s)>> ELSE <<Head(s)>>) \o escaped(Tail(s))

encode_basestring(s) == <<34>> \o escaped(s) \o <<34>>

\* The UTF-8 bytes of a code point below 65536.
utf8_of(c) ==
    IF c < 128 THEN <<c>>
    ELSE IF c < 2048 THEN <<192 + (c \div 64), 128 + (c % 64)>>
    ELSE <<224 + (c \div 4096), 128 + ((c \div 64) % 64), 128 + (c % 64)>>

RECURSIVE utf8_encode(_)
utf8_encode(s) == IF s = <<>> THEN <<>> ELSE utf8_of(Head(s)) \o utf8_encode(Tail(s))

\* What decoding gives: the text, or a UnicodeDecodeError.
Decoded(text) == [ok |-> TRUE, text |-> text]
DecodeError == [ok |-> FALSE, text |-> <<>>]

IsContinuation(b) == b >= 128 /\ b < 192

RECURSIVE utf8_decode_from(_, _)
utf8_decode_from(acc, b) ==
    IF b = <<>> THEN Decoded(acc)
    ELSE IF b[1] < 128 THEN utf8_decode_from(Append(acc, b[1]), Tail(b))
    ELSE IF b[1] >= 194 /\ b[1] < 224 /\ Len(b) >= 2 /\ IsContinuation(b[2])
         THEN utf8_decode_from(Append(acc, (b[1] - 192) * 64 + (b[2] - 128)),
                               SubSeq(b, 3, Len(b)))
    ELSE IF b[1] >= 224 /\ b[1] < 240 /\ Len(b) >= 3 /\ IsContinuation(b[2])
            /\ IsContinuation(b[3])
         THEN utf8_decode_from(Append(acc, (b[1] - 224) * 4096 + (b[2] - 128) * 64
                                           + (b[3] - 128)),
                               SubSeq(b, 4, Len(b)))
    ELSE DecodeError

\* The code points cp1252 gives the bytes 128..159 (0: the byte is undefined).
cp1252_high ==
    << 8364, 0, 8218, 402, 8222, 8230, 8224, 8225, 710, 8240, 352, 8249, 338, 0, 381, 0,
       0, 8216, 8217, 8220, 8221, 8226, 8211, 8212, 732, 8482, 353, 8250, 339, 0, 382, 376 >>

cp1252_of(b) == IF b < 128 \/ b >= 160 THEN b ELSE cp1252_high[b - 127]

RECURSIVE cp1252_decode_from(_, _)
cp1252_decode_from(acc, b) ==
    IF b = <<>> THEN Decoded(acc)
    ELSE IF cp1252_of(b[1]) = 0 THEN DecodeError
    ELSE cp1252_decode_from(Append(acc, cp1252_of(b[1])), Tail(b))

\* TextIOWrapper.read() of a file opened with the given encoding.
decode(b, encoding) ==
    IF encoding = "utf-8" THEN utf8_decode_from(<<>>, b) ELSE cp1252_decode_from(<<>>, b)

\* json.decoder.py_scanstring: the text between the quotes with the escapes
\* undone; an error when the literal does not end where the text ends.
RECURSIVE unescaped(_, _)
unescaped(acc, s) ==
    IF s = <<>> THEN DecodeError
    ELSE IF s[1] = 34 THEN IF Len(s) = 1 THEN Decoded(acc) ELSE DecodeError
    ELSE IF s[1] = 92
         THEN IF Len(s) >= 2 /\ s[2] \in {34, 92}
              THEN unescaped(Append(acc, s[2]), SubSeq(s, 3, Len(s)))
              ELSE DecodeError
    ELSE unescaped(Append(acc, s[1]), Tail(s))

scanstring(s) ==
    IF s = <<>> \/ s[1] # 34 THEN DecodeError ELSE unescaped(<<>>, Tail(s))

\* The fields of a version record, each a text.
RecordFields == {"version", "downloaded_at", "path", "filename"}

\* The documents save_metadata is given: one record, with a path and a file name
\* of up to MaxText characters.
Documents ==
    { [d \in {"concised"} |->
         [version |-> <<50, 48>>, downloaded_at |-> <<50, 90>>,
          path |-> path, filename |-> filename]] :
        path \in Texts, filename \in Texts }

\* metadata.json does not exist; nothing read yet.
NoBytes == [d \in {} |-> 0]
NotRead == [read |-> FALSE, doc |-> EmptyDoc]

\* json.dump into the file opened with encoding='utf-8': each text as the bytes
\* of its literal (the braces, colons and key names are ASCII in every encoding
\* of the model and are not spelled out).
dump(doc) ==
    [d \in DOMAIN doc |->
        [f \in RecordFields |-> utf8_encode(encode_basestring(doc[d][f]))]]

\* json.load from the file opened in the given encoding; any error is caught by
\* load_metadata, which then returns {}.
load(bytes, encoding) ==
    LET text == [d \in DOMAIN bytes |->
                    [f \in RecordFields |-> decode(bytes[d][f], encoding)]]
        parsed == [d \in DOMAIN bytes |->
                    [f \in RecordFields |-> scanstring(text[d][f].text)]]
    IN  IF \A d \in DOMAIN bytes, f \in RecordFields : text[d][f].ok /\ parsed[d][f].ok
        THEN [d \in DOMAIN bytes |-> [f \in RecordFields |-> parsed[d][f].text]]
        ELSE EmptyDoc

\* DictionaryDownloader.save_metadata(doc), completed.
SaveMetadata(doc) ==
    /\ metadata_json = NoBytes
    /\ save_arg' = doc
    /\ metadata_json' = dump(doc)
    /\ UNCHANGED <<preferred_encoding, load_ret, queryVars, columnVars, updateVars>>

\* DictionaryDownloader.load_metadata() on the file that save_metadata wrote.
LoadMetadata ==
    /\ metadata_json # NoBytes
    /\ ~load_ret.read
    /\ load_ret' = [read |-> TRUE, doc |-> load(metadata_json, preferred_encoding)]
    /\ UNCHANGED <<preferred_encoding, metadata_json, save_arg, queryVars, columnVars,
                   updateVars>>

\* No byte-level file is in play.
NoText ==
    /\ metadata_json = NoBytes
    /\ save_arg = EmptyDoc
    /\ load_ret = NotRead

(***************************************************************************)
(* UpdateChecker (check_updates.py).                                       *)
(***************************************************************************)
NoCheck ==
    [error |-> "", dict_name |-> "", local_version |-> NoVersion,
     latest_version |-> NoVersion, status |-> "none", update_available |-> FALSE]

\* main() of check_updates.py, lines 236-237: whatever compare_versions or
\* check_all returned is printed and the exit code is 0.
check_exit(r) == 0

\* UpdateChecker.get_latest_version: the error, or the highest token of the page.
checker_latest(d, reachable) ==
    IF d \notin DICTIONARIES THEN [NoCheck EXCEPT !.error = "unknown_dictionary"]
    ELSE IF ~reachable THEN [NoCheck EXCEPT !.error = "network", !.dict_name = d]
    ELSE IF listing[d] = {} THEN [NoCheck EXCEPT !.error = "not_found", !.dict_name = d]
    ELSE [NoCheck EXCEPT !.dict_name = d, !.latest_version = LexMax(listing[d])]

\* Lines 168-176.
version_status_reversed(local_version, latest) ==
    IF local_version = NoVersion THEN "not_installed"
    ELSE IF local_version = latest THEN "up_to_date"
    ELSE IF LexLess(latest, local_version) THEN "update_available"
    ELSE "newer_than_remote"

version_status(local_version, latest) ==
    IF local_version = NoVersion THEN "not_installed"
    ELSE IF local_version = latest THEN "up_to_date"
    ELSE IF LexLess(local_version, latest) THEN "update_available"
    ELSE "newer_than_remote"

compare_versions(d, reachable) ==
    LET local_version == local_version_of(load_metadata, d)
        latest_info == checker_latest(d, reachable)
    IN  IF latest_info.error # "" THEN latest_info
        ELSE LET status == version_status(local_version, latest_info.latest_version)
             IN  [latest_info EXCEPT !.local_version = local_version,
                                     !.status = status,
                                     !.update_available = (status = "update_available")]

\* main() of check_updates.py with --dict-name: one invocation of the check command.
Check(d) ==
    /\ \A p \in Procs : pc[p] = "idle"
    /\ ncalls < MaxCalls
    /\ ncalls' = ncalls + 1
    /\ \E reachable \in BOOLEAN :
         /\ checkResult' = compare_versions(d, reachable)
         /\ cause' = [cause EXCEPT !["checker"] =
                        resolution_kind(d \in DICTIONARIES,
                                        IF d \in DICTIONARIES THEN listing[d] ELSE {},
                                        reachable)]
    /\ requests' = requests \cup
          (IF d \in DICTIONARIES
           THEN {Request("checker listing", ssl_context)}
           ELSE {})
    /\ UNCHANGED <<queryVars, columnVars, fileVars, halfWritten, allResult, listing, metaFile,
                   dirs, files, tmpFiles, now, active, pc, dict_name, force, html,
                   latest_version, metadata, result, downloads, metaBefore, repeat, archive>>

\* for dict_name in metadata.keys(): the keys of a document, one after another.
RECURSIVE keys(_)
keys(S) ==
    IF S = {} THEN <<>>
    ELSE LET d == CHOOSE x \in S : TRUE IN << d >> \o keys(S \ {d})

NoAll == [dictionaries |-> <<>>, updates_available |-> FALSE, checked |-> FALSE]

\* A variant that walks the configured catalogue instead of the document.
checked_names_configured(doc) == keys(DICTIONARIES)

\* Line 196: the names check_all walks.
checked_names(doc) == keys(DOMAIN doc)

\* UpdateChecker.check_all; reachable[d] tells whether d's page can be fetched.
check_all(reachable) ==
    LET names == checked_names(load_metadata)
        results == [i \in 1..Len(names) |-> compare_versions(names[i], reachable[names[i]])]
    IN  [dictionaries |-> results,
         updates_available |-> \E i \in 1..Len(results) : results[i].update_available,
         checked |-> TRUE]

\* main() of check_updates.py with --check-all: one invocation of the check command.
CheckAll ==
    /\ \A p \in Procs : pc[p] = "idle"
    /\ ncalls < MaxCalls
    /\ ncalls' = ncalls + 1
    /\ \E reachable \in [DICTIONARIES -> BOOLEAN] : allResult' = check_all(reachable)
    /\ requests' = requests \cup
          (IF DOMAIN load_metadata # {}
           THEN {Request("checker listing", ssl_context)}
           ELSE {})
    /\ UNCHANGED <<queryVars, columnVars, fileVars, cause, halfWritten, checkResult, listing,
                   metaFile, dirs, files, tmpFiles, now, active, pc, dict_name, force, html,
                   latest_version, metadata, result, downloads, metaBefore, repeat, archive>>

(***************************************************************************)
(* The query engine (query_dictionary.py).  A word is a sequence of        *)
(* one-character strings; NaN is the empty cell pandas reads as float nan. *)
(***************************************************************************)
MaxRows == 4

NaN == << "NaN" >>
None == "None"

\* The cells of the word column a table may hold.
Words ==
    { NaN, << " " >>, << "a", "b" >>, << "A", "b", " " >>, << "a", "b", "b" >>,
      << "a", "a", "b" >>, << "a", "b", "a" >>, << "b" >> }

\* The words a caller may ask for.
Queries ==
    { << "a", "b" >>, << " ", "A", "b" >>, << "a" >>, << >>, << "x" >> }

\* pd.read_excel: row i holds a word cell and its own definition text; the
\* sheets of n rows.
Tables(n) ==
    { [i \in 1..n |-> [word |-> w[i], definition |-> i]] : w \in [1..n -> Words] }

\* A sheet of more distinct words than the prefix tier lists: the word "b" in
\* the first row, then six words that start with "a" in any order.
LongWords ==
    { << "a", "b", "b" >>, << "a", "a", "b" >>, << "a", "b", "a" >>, << "a", "a", "a" >>,
      << "a", "b", "a", "b" >>, << "a", "b", "b", "a" >> }

LongTables ==
    { [i \in 1..(Cardinality(LongWords) + 1) |->
          [word |-> IF i = 1 THEN << "b" >> ELSE w[i - 1], definition |-> i]] :
        w \in { f \in [1..Cardinality(LongWords) -> LongWords] :
                  \A i, j \in 1..Cardinality(LongWords) : f[i] = f[j] => i = j } }

\* str.strip()
RECURSIVE lstrip(_)
lstrip(w) == IF w # <<>> /\ Head(w) = " " THEN lstrip(Tail(w)) ELSE w

RECURSIVE rstrip(_)
rstrip(w) ==
    IF w # <<>> /\ w[Len(w)] = " " THEN rstrip(SubSeq(w, 1, Len(w) - 1)) ELSE w

strip(w) == rstrip(lstrip(w))

\* str.lower()
lower(w) == [i \in 1..Len(w) |-> IF w[i] = "A" THEN "a" ELSE IF w[i] = "B" THEN "b" ELSE w[i]]

\* word.strip().lower()
normalize(w) == lower(strip(w))

\* Code points, for str comparison.
Code(c) ==
    CASE c = " " -> 32 [] c = "A" -> 65 [] c = "B" -> 66 [] c = "a" -> 97
      [] c = "b" -> 98 [] c = "x" -> 120 [] OTHER -> 0

RECURSIVE StrLess(_, _)
StrLess(a, b) ==
    IF b = <<>> THEN FALSE
    ELSE IF a = <<>> THEN TRUE
    ELSE IF Head(a) # Head(b) THEN Code(Head(a)) < Code(Head(b))
    ELSE StrLess(Tail(a), Tail(b))

\* A dict: its keys in insertion order and the value of each key.
EmptyIndex == [keys |-> <<>>, pos |-> <<>>]

KeySet(index) == { index.keys[i] : i \in 1..Len(index.keys) }

\* d[k] = v: a new key goes last, a key already present keeps its place.
dict_set(index, k, v) ==
    IF k \in KeySet(index)
    THEN [index EXCEPT !.pos = [x \in KeySet(index) |-> IF x = k THEN v ELSE index.pos[x]]]
    ELSE [keys |-> Append(index.keys, k),
          pos |-> [x \in KeySet(index) \cup {k} |-> IF x = k THEN v ELSE index.pos[x]]]

\* Line 72: the rows that enter the index.
indexed(row) == row.word # NaN

\* Lines 69-73: the dict comprehension over df.iterrows().
RECURSIVE build_index(_, _, _)
build_index(rows, i, index) ==
    IF i > Len(rows) THEN index
    ELSE build_index(rows, i + 1,
                     IF indexed(rows[i])
                     THEN dict_set(index, normalize(rows[i].word), i)
                     ELSE index)

\* A variant that ignores the full flag.
format_entry_short(row, full) ==
    [word |-> IF row.word # NaN THEN strip(row.word) ELSE None,
     pronunciation |-> None, definition |-> row.definition]

\* _format_entry
format_entry(row, full) ==
    IF full
    THEN [word |-> IF row.word # NaN THEN strip(row.word) ELSE None,
          pronunciation |-> None, definition |-> row.definition,
          part_of_speech |-> None, examples |-> None, additional_info |-> None]
    ELSE [word |-> IF row.word # NaN THEN strip(row.word) ELSE None,
          pronunciation |-> None, definition |-> row.definition]

\* find_exact_match: the entry in a list, or the empty list for None.
find_exact_match(word) ==
    LET word_lower == normalize(word)
    IN  IF word_lower \in KeySet(word_index)
        THEN << format_entry(df[word_index.pos[word_lower]], FALSE) >>
        ELSE <<>>

(***************************************************************************)
(* difflib.SequenceMatcher and difflib.get_close_matches.                  *)
(***************************************************************************)
Min(x, y) == IF x < y THEN x ELSE y

CommonAt(a, b, i, j, k) ==
    /\ i + k - 1 <= Len(a)
    /\ j + k - 1 <= Len(b)
    /\ SubSeq(a, i, i + k - 1) = SubSeq(b, j, j + k - 1)

\* find_longest_match: the longest common block; of those the one starting earliest
\* in a, and of those the one starting earliest in b.  <<i, j, k>>, k = 0 for none.
find_longest_match(a, b) ==
    LET sizes == { k \in 1..Min(Len(a), Len(b)) :
                     \E i \in 1..Len(a), j \in 1..Len(b) : CommonAt(a, b, i, j, k) }
    IN  IF sizes = {} THEN << 1, 1, 0 >>
        ELSE LET k == CHOOSE x \in sizes : \A y \in sizes : y <= x
                 i == CHOOSE x \in 1..Len(a) :
                        /\ \E j \in 1..Len(b) : CommonAt(a, b, x, j, k)
                        /\ \A y \in 1..(x - 1) :
                             ~\E j \in 1..Len(b) : CommonAt(a, b, y, j, k)
                 j == CHOOSE x \in 1..Len(b) :
                        /\ CommonAt(a, b, i, x, k)
                        /\ \A y \in 1..(x - 1) : ~CommonAt(a, b, i, y, k)
             IN  << i, j, k >>

\* sum(triple[-1] for triple in self.get_matching_blocks())
RECURSIVE matches(_, _)
matches(a, b) ==
    IF a = <<>> \/ b = <<>> THEN 0
    ELSE LET m == find_longest_match(a, b)
         IN  IF m[3] = 0 THEN 0
             ELSE m[3]
                  + matches(SubSeq(a, 1, m[1] - 1), SubSeq(b, 1, m[2] - 1))
                  + matches(SubSeq(a, m[1] + m[3], Len(a)), SubSeq(b, m[2] + m[3], Len(b)))

\* _calculate_ratio(matches, length) as the fraction [num, den]; 1.0 when length = 0.
calculate_ratio(m, length) ==
    IF length = 0 THEN [num |-> 1, den |-> 1] ELSE [num |-> 2 * m, den |-> length]

ratio(a, b) == calculate_ratio(matches(a, b), Len(a) + Len(b))

Count(w, c) == Cardinality({ i \in 1..Len(w) : w[i] = c })

Chars(w) == { w[i] : i \in 1..Len(w) }

RECURSIVE SumMin(_, _, _)
SumMin(S, a, b) ==
    IF S = {} THEN 0
    ELSE LET c == CHOOSE x \in S : TRUE
         IN  Min(Count(a, c), Count(b, c)) + SumMin(S \ {c}, a, b)

quick_ratio(a, b) == calculate_ratio(SumMin(Chars(a), a, b), Len(a) + Len(b))

real_quick_ratio(a, b) == calculate_ratio(Min(Len(a), Len(b)), Len(a) + Len(b))

\* Comparison of two such fractions.
AtLeast(r, c) == r.num * c.den >= c.num * r.den
Greater(r, s) == r.num * s.den > s.num * r.den
Equal(r, s) == r.num * s.den = s.num * r.den

\* cutoff=0.6 (line 149)
cutoff == [num |-> 3, den |-> 5]

\* Lines 242 and 252: max_results of the two fallback tiers.
FuzzyMax == 3
PrefixMax == 5

\* get_close_matches, the loop: result.append((s.ratio(), x)) for each
\* possibility that passes the three tests, in the order of the possibilities.
RECURSIVE scored(_, _, _)
scored(word, possibilities, i) ==
    IF i > Len(possibilities) THEN <<>>
    ELSE LET x == possibilities[i]
         IN  (IF /\ AtLeast(real_quick_ratio(x, word), cutoff)
                 /\ AtLeast(quick_ratio(x, word), cutoff)
                 /\ AtLeast(ratio(x, word), cutoff)
              THEN << [score |-> ratio(x, word), x |-> x] >>
              ELSE <<>>) \o scored(word, possibilities, i + 1)

\* A ranking that leaves pairs of equal score in the order of the list.
ranks_before_stable(pairs, i, j) ==
    \/ Greater(pairs[i].score, pairs[j].score)
    \/ Equal(pairs[i].score, pairs[j].score) /\ i < j

\* The order of the tuples (score, x): pair i is larger than pair j.
ranks_before(pairs, i, j) ==
    \/ Greater(pairs[i].score, pairs[j].score)
    \/ Equal(pairs[i].score, pairs[j].score) /\ StrLess(pairs[j].x, pairs[i].x)

\* heapq.nlargest(n, result), then [x for score, x in result]
nlargest(n, pairs) ==
    LET rank(j) == 1 + Cardinality({ k \in 1..Len(pairs) : ranks_before(pairs, k, j) })
    IN  [ i \in 1..Min(n, Len(pairs)) |->
            pairs[CHOOSE j \in 1..Len(pairs) : rank(j) = i].x ]

\* difflib.get_close_matches(word, possibilities, n, cutoff)
get_close_matches(word, possibilities, n) ==
    LET pairs == scored(word, possibilities, 1)
    IN  nlargest(n, pairs)

\* find_fuzzy_matches
find_fuzzy_matches(word, max_results) ==
    LET word_lower == normalize(word)
        matched == get_close_matches(word_lower, word_index.keys, max_results)
    IN  [ i \in 1..Len(matched) |-> format_entry(df[word_index.pos[matched[i]]], FALSE) ]

\* A variant that keeps the last max_results matches instead of the first.
find_prefix_matches_last(prefix, max_results) ==
    LET prefix_lower == normalize(prefix)
        matched == SelectSeq(word_index.keys, LAMBDA w : IsPrefix(prefix_lower, w))
        kept == SubSeq(matched, Len(matched) - Min(max_results, Len(matched)) + 1, Len(matched))
    IN  [ i \in 1..Len(kept) |-> format_entry(df[word_index.pos[kept[i]]], FALSE) ]

\* find_prefix_matches
find_prefix_matches(prefix, max_results) ==
    LET prefix_lower == normalize(prefix)
        matched == SelectSeq(word_index.keys, LAMBDA w : IsPrefix(prefix_lower, w))
        kept == SubSeq(matched, 1, Min(max_results, Len(matched)))
    IN  [ i \in 1..Len(kept) |-> format_entry(df[word_index.pos[kept[i]]], FALSE) ]

NoQuery ==
    [success |-> FALSE, query |-> <<>>, match_type |-> "none", primary |-> <<>>,
     alternatives |-> <<>>, error |-> "not asked"]

Answer(word, match_type, primary, alternatives) ==
    [success |-> TRUE, query |-> word, match_type |-> match_type, primary |-> primary,
     alternatives |-> alternatives, error |-> ""]

NoMatch(word) ==
    [success |-> FALSE, query |-> word, match_type |-> "none", primary |-> <<>>,
     alternatives |-> <<>>, error |-> "No matching words found"]

\* A variant that tries the prefix tier before the approximate one.
query_prefix_first(word, full) ==
    LET exact == find_exact_match(word)
        fuzzy == find_fuzzy_matches(word, FuzzyMax)
        prefix == find_prefix_matches(word, PrefixMax)
    IN  IF exact # <<>>
        THEN Answer(word, "exact",
                    << format_entry(df[word_index.pos[normalize(word)]], full) >>, <<>>)
        ELSE IF prefix # <<>> THEN Answer(word, "prefix", <<>>, prefix)
        ELSE IF fuzzy # <<>> THEN Answer(word, "fuzzy", <<>>, fuzzy)
        ELSE NoMatch(word)

\* DictionaryQuery.query
query(word, full) ==
    LET exact == find_exact_match(word)
        fuzzy == find_fuzzy_matches(word, FuzzyMax)
        prefix == find_prefix_matches(word, PrefixMax)
    IN  IF exact # <<>>
        THEN Answer(word, "exact",
                    << format_entry(df[word_index.pos[normalize(word)]], full) >>, <<>>)
        ELSE IF fuzzy # <<>> THEN Answer(word, "fuzzy", <<>>, fuzzy)
        ELSE IF prefix # <<>> THEN Answer(word, "prefix", <<>>, prefix)
        ELSE NoMatch(word)

(***************************************************************************)
(* DictionaryQuery._normalize_columns.  A header is a sequence of          *)
(* characters; the Chinese characters are written by their readings:       *)
(* zi ci (U+5B57 U+8A5E), zhu yin (U+6CE8 U+97F3), ci xing (U+8A5E U+6027), *)
(* shi yi (U+91CB U+7FA9), li ju (U+4F8B U+53E5) and qi ta zi1 xun         *)
(* (U+5176 U+4ED6 U+8CC7 U+8A0A).                                          *)
(***************************************************************************)
MaxCols == 3

word_name == <<"w", "o", "r", "d">>
pronunciation_name == <<"p", "r", "o", "n", "u", "n", "c", "i", "a", "t", "i", "o", "n">>
part_of_speech_name == <<"p", "a", "r", "t", "_", "o", "f", "_", "s", "p", "e", "e", "c", "h">>
definition_name == <<"d", "e", "f", "i", "n", "i", "t", "i", "o", "n">>
examples_name == <<"e", "x", "a", "m", "p", "l", "e", "s">>
additional_info_name ==
    <<"a", "d", "d", "i", "t", "i", "o", "n", "a", "l", "_", "i", "n", "f", "o">>

\* Lines 83-90, in the order of the dict.
column_mapping ==
    << [original |-> <<"zi", "ci">>, standard |-> word_name],
       [original |-> <<"zhu", "yin">>, standard |-> pronunciation_name],
       [original |-> <<"ci", "xing">>, standard |-> part_of_speech_name],
       [original |-> <<"shi", "yi">>, standard |-> definition_name],
       [original |-> <<"li", "ju">>, standard |-> examples_name],
       [original |-> <<"qi", "ta", "zi1", "xun">>, standard |-> additional_info_name] >>

\* Line 108.
required ==
    << word_name, pronunciation_name, part_of_speech_name, definition_name, examples_name >>

\* The headers a sheet may carry: the six expected ones, a standard name, a header
\* holding two expected ones, a header held by two expected ones, two longer
\* variants and an unrelated one.
Headers ==
    { column_mapping[k].original : k \in 1..Len(column_mapping) } \cup
    { word_name, <<"zi", "ci", "zhu", "yin">>, <<"ci">>, <<"zhu", "yin", "fu", "hao">>,
      <<"zi", "ci", "A">>, <<"x">> }

\* df.columns as read_excel delivers them: distinct headers.
Sheets ==
    { s \in UNION { [1..n -> Headers] : n \in 0..MaxCols } :
        \A i, j \in 1..Len(s) : i # j => s[i] # s[j] }

\* a in b
Contains(a, b) == \E i \in 0..(Len(b) - Len(a)) : SubSeq(b, i + 1, i + Len(a)) = a

\* Line 100.
fuzzy_match(original, col) ==
    Contains(lower(original), lower(col)) \/ Contains(lower(col), lower(original))

NoRename == [h \in {} |-> <<>>]

\* rename_dict[key] = value
assign(rename_dict, key, value) ==
    [h \in DOMAIN rename_dict \cup {key} |-> IF h = key THEN value ELSE rename_dict[h]]

\* Lines 94-102: the loop over column_mapping from entry k on.
RECURSIVE rename_from(_, _, _)
rename_from(cols, k, rename_dict) ==
    IF k > Len(column_mapping) THEN rename_dict
    ELSE LET original == column_mapping[k].original
             standard == column_mapping[k].standard
             names == { cols[i] : i \in 1..Len(cols) }
             hits == { i \in 1..Len(cols) : fuzzy_match(original, cols[i]) }
         IN  IF original \in names
             THEN rename_from(cols, k + 1, assign(rename_dict, original, standard))
             ELSE IF standard \notin names /\ hits # {}
             THEN rename_from(cols, k + 1,
                              assign(rename_dict,
                                     cols[CHOOSE i \in hits : \A j \in hits : i <= j],
                                     standard))
             ELSE rename_from(cols, k + 1, rename_dict)

\* Lines 104-105: each column keeps its data (from: its position in the sheet).
renamed(cols, rename_dict) ==
    [ i \in 1..Len(cols) |->
        [name |-> IF cols[i] \in DOMAIN rename_dict THEN rename_dict[cols[i]] ELSE cols[i],
         from |-> i] ]

\* Lines 109-111: a missing required column is added with None in every row
\* (from: 0).
RECURSIVE pad_from(_, _)
pad_from(columns_, k) ==
    IF k > Len(required) THEN columns_
    ELSE IF \E i \in 1..Len(columns_) : columns_[i].name = required[k]
         THEN pad_from(columns_, k + 1)
    ELSE pad_from(Append(columns_, [name |-> required[k], from |-> 0]), k + 1)

normalize_columns(cols) == pad_from(renamed(cols, rename_from(cols, 1, NoRename)), 1)

\* Before _normalize_columns has run.
NotNormalized == << [name |-> <<>>, from |-> -1] >>

NormalizeColumns ==
    /\ columns = NotNormalized
    /\ columns' = normalize_columns(sheet_columns)
    /\ UNCHANGED <<sheet_columns, queryVars, fileVars, updateVars>>

\* get_dictionary_path (lines 268-299): the path the record of d names, or NoPath
\* (None) when the metadata file is missing or unreadable, d has no record, or
\* the named file does not exist.
get_dictionary_path(d) ==
    IF metaFile.state # "ok" THEN NoPath
    ELSE IF d \notin DOMAIN metaFile.doc THEN NoPath
    ELSE LET info == metaFile.doc[d]
             xlsx_path == Append(info.path, info.filename)
         IN  IF Exists(files, dirs, xlsx_path) THEN xlsx_path ELSE NoPath

\* main() of query_dictionary.py, line 323.
query_exit(r) == IF r.success THEN 0 ELSE 1

NotLoaded == [keys |-> << NaN >>, pos |-> <<>>]

\* DictionaryQuery.__init__ / _load_dictionary: read the sheet, build the index.
LoadDictionary ==
    /\ word_index = NotLoaded
    /\ \E sheets \in {LongTables} \cup { Tables(n) : n \in 0..MaxRows } :
         \E table \in sheets :
            /\ df' = table
            /\ word_index' = build_index(table, 1, EmptyIndex)
    /\ UNCHANGED <<qresult, asked_full, columnVars, fileVars, updateVars>>

\* main() of query_dictionary.py: the one query of a run, against the loaded table.
Query(word, full) ==
    /\ word_index # NotLoaded
    /\ qresult = NoQuery
    /\ qresult' = query(word, full)
    /\ asked_full' = full
    /\ UNCHANGED <<df, word_index, columnVars, fileVars, updateVars>>

(***************************************************************************)
(* Specifications.                                                         *)
(***************************************************************************)
\* No invocation has started yet.
Idle(running) ==
    /\ tmpFiles = {}
    /\ ncalls = 0
    /\ active = running
    /\ pc = [p \in Procs |-> "idle"]
    /\ dict_name = [p \in Procs |-> ""]
    /\ force = [p \in Procs |-> FALSE]
    /\ html = [p \in Procs |-> {}]
    /\ latest_version = [p \in Procs |-> NoVersion]
    /\ metadata = [p \in Procs |-> EmptyDoc]
    /\ result = [p \in Procs |-> NoResult]
    /\ downloads = [p \in Procs |-> 0]
    /\ metaBefore = [p \in Procs |-> NoFile]
    /\ repeat = [p \in Procs |-> FALSE]
    /\ archive = [p \in Procs |-> <<>>]
    /\ checkResult = NoCheck
    /\ allResult = NoAll
    /\ requests = {}
    /\ halfWritten = {}
    /\ cause = [x \in Procs \cup {"checker"} |-> "none"]

\* No table is loaded.
NoTable ==
    /\ df = <<>>
    /\ word_index = NotLoaded
    /\ qresult = NoQuery
    /\ asked_full = FALSE

\* A fresh storage directory; nothing published yet.
\* No sheet is in play.
NoSheet ==
    /\ sheet_columns = <<>>
    /\ columns = NotNormalized

InitWith(running) ==
    /\ listing = [d \in DICTIONARIES |-> {}]
    /\ metaFile = NoFile
    /\ dirs = {}
    /\ files = {}
    /\ now = 0
    /\ Idle(running)
    /\ NoTable
    /\ NoSheet
    /\ NoText
    /\ preferred_encoding = "utf-8"

\* One invocation at a time (the single-threaded model of the tool).
Init == InitWith({"p1"})

\* Two concurrent invocations against the same storage directory.
InitConc == InitWith({"p1", "p2"})

\* The documents earlier updates leave behind: for each installed dictionary the
\* record update_dictionary commits (lines 303-308) after unpacking a version.
InstalledDocs ==
    { [d \in DOMAIN v |->
         VersionRecord(v[d], IF d = "concised" THEN 1 ELSE 2,
                       extract_path_of(d, v[d]), xlsx_filename(d))] :
        v \in UNION { [S -> Tokens] : S \in SUBSET SOURCES \ {{}} } }

\* Any remote listing, and a storage directory as earlier updates may have left it.
InitCheck ==
    /\ listing \in [DICTIONARIES -> SUBSET Tokens]
    /\ \E doc \in InstalledDocs :
         /\ metaFile \in {NoFile, Truncated, Stored(doc)}
         /\ dirs = { doc[d].path : d \in DOMAIN doc }
         /\ files = { Append(doc[d].path, doc[d].filename) : d \in DOMAIN doc }
    /\ now = 2
    /\ Idle({})
    /\ NoTable
    /\ NoSheet
    /\ NoText
    /\ preferred_encoding = "utf-8"

Next ==
    \/ \E d \in {downloader_page(x) : x \in SOURCES}, S \in SUBSET Tokens :
            RemoteChange(d, S)
    \/ \E p \in Procs, d \in UpdateNames, f \in BOOLEAN : Start(p, d, f)
    \/ \E p \in Procs : Resolve(p)
    \/ \E p \in Procs : LoadAndCompare(p)
    \/ \E p \in Procs : Download(p)
    \/ \E p \in Procs : Extract(p)
    \/ \E p \in Procs : SaveOpen(p)
    \/ \E p \in Procs : SaveWrite(p)

Spec == Init /\ [][Next]_vars

SpecConc == InitConc /\ [][Next]_vars

\* The check command alone, over every remote listing and installed state.
NextCheck == \E d \in CheckNames : Check(d)

SpecCheck == InitCheck /\ [][NextCheck]_vars

\* The check of all installed dictionaries, over the same states.
SpecCheckAll == InitCheck /\ [][CheckAll]_vars

\* The 8-digit tokens a listing page may name: dates across a change of day,
\* month, year and century.
DateTokens ==
    Tokens \cup { <<2,0,2,3,1,2,3,1>>, <<2,0,2,4,0,1,0,1>>, <<2,0,2,3,0,9,0,5>>,
                  <<1,9,9,9,1,2,3,1>> }

\* Version resolution alone, by the checker and by the updater, for any set of
\* tokens on one listing page.
InitLatest ==
    /\ \E x \in DICTIONARIES, S \in SUBSET DateTokens :
          listing = [d \in DICTIONARIES |-> IF d = x THEN S ELSE {}]
    /\ metaFile = NoFile
    /\ dirs = {}
    /\ files = {}
    /\ now = 0
    /\ Idle({"p1"})
    /\ NoTable
    /\ NoSheet
    /\ NoText
    /\ preferred_encoding = "utf-8"

NextLatest ==
    \/ \E d \in CheckNames : Check(d)
    \/ \E p \in Procs, d \in UpdateNames : CheckOnly(p, d)
    \/ \E p \in Procs, d \in UpdateNames, f \in BOOLEAN : Start(p, d, f)
    \/ \E p \in Procs : Resolve(p)

SpecLatest == InitLatest /\ [][NextLatest]_vars

\* The query command over every table of at most MaxRows rows.
InitQuery ==
    /\ listing = [d \in DICTIONARIES |-> {}]
    /\ metaFile = NoFile
    /\ dirs = {}
    /\ files = {}
    /\ now = 0
    /\ Idle({})
    /\ NoTable
    /\ NoSheet
    /\ NoText
    /\ preferred_encoding = "utf-8"

NextQuery ==
    \/ LoadDictionary
    \/ \E word \in Queries, full \in BOOLEAN : Query(word, full)

SpecQuery == InitQuery /\ [][NextQuery]_vars

\* save_metadata followed by load_metadata, for every document and every encoding
\* the reading process may run under.
InitFile ==
    /\ listing = [d \in DICTIONARIES |-> {}]
    /\ metaFile = NoFile
    /\ dirs = {}
    /\ files = {}
    /\ now = 0
    /\ Idle({})
    /\ NoTable
    /\ NoSheet
    /\ NoText
    /\ preferred_encoding \in Encodings

NextFile ==
    \/ \E doc \in Documents : SaveMetadata(doc)
    \/ LoadMetadata

SpecFile == InitFile /\ [][NextFile]_vars

\* _normalize_columns over every sheet of at most MaxCols columns.
InitColumns ==
    /\ listing = [d \in DICTIONARIES |-> {}]
    /\ metaFile = NoFile
    /\ dirs = {}
    /\ files = {}
    /\ now = 0
    /\ Idle({})
    /\ NoTable
    /\ NoText
    /\ preferred_encoding = "utf-8"
    /\ sheet_columns \in Sheets
    /\ columns = NotNormalized

SpecColumns == InitColumns /\ [][NormalizeColumns]_vars

(***************************************************************************)
(* Properties of the update pipeline.                                      *)
(***************************************************************************)
Finished(p) == pc[p] = "idle" /\ result[p].status # "none"

PreCommitErrors ==
    {"unknown_dictionary", "no_latest_version", "download_failed", "unsafe_archive",
     "extract_failed", "payload_not_found"}

\* C1: an update that fails before the metadata commit (version resolution, download,
\* unsafe archive, extraction, payload not found) leaves the metadata file exactly
\* as it was when the call started.
C1_FailedUpdateKeepsMetadata ==
    \A p \in Procs :
        (Finished(p) /\ result[p].error \in PreCommitErrors) => metaFile = metaBefore[p]

\* A failed fetch for a dictionary that already has a record.
C1_Witness ==
    \E p \in Procs :
        /\ Finished(p)
        /\ result[p].error \in {"unsafe_archive", "extract_failed", "payload_not_found",
                                "download_failed"}
        /\ metaBefore[p].state = "ok"
        /\ dict_name[p] \in DOMAIN metaBefore[p].doc

\* C2: a second update of the same dictionary with force=false, right after a
\* successful one and with the listing unchanged, downloads nothing, leaves the
\* metadata file unchanged, and (having fetched that listing) returns up_to_date.
C2_SecondUpdateIsNoOp ==
    \A p \in Procs :
        (Finished(p) /\ repeat[p] /\ ~force[p]) =>
            /\ downloads[p] = 0
            /\ metaFile = metaBefore[p]
            /\ (latest_version[p] # NoVersion => result[p].status = "up_to_date")

C2_Witness ==
    \E p \in Procs :
        /\ Finished(p) /\ repeat[p] /\ ~force[p]
        /\ result[p].status = "up_to_date"
        /\ metaFile.state = "ok"
        /\ metaFile.doc[dict_name[p]].version = result[p].version

\* The member's path, resolved against the extraction directory, leaves it.
ResolvesOutside(member, extract_path) ==
    LET at == IF member.abs THEN resolve(member.parts)
              ELSE resolve(extract_path \o member.parts)
    IN  ~(Len(at) >= Len(extract_path) /\ SubSeq(at, 1, Len(extract_path)) = extract_path)

HasEscapingMember(p) ==
    \E i \in 1..Len(archive[p]) :
        ResolvesOutside(archive[p][i],
                        extract_path_of(dict_name[p], latest_version[p]))

\* C3: no file is ever written outside an extraction directory: an archive with a
\* member such as ../evil or /evil is refused with the unsafe-archive error, and every
\* file that exists lies strictly inside an extraction directory.
C3_NoWriteOutsideExtractDir ==
    /\ \A f \in files : \E dir \in dirs : StrictlyInside(f, dir)
    /\ \A p \in Procs :
         (Finished(p) /\ archive[p] # <<>> /\ HasEscapingMember(p)) =>
             result[p].error = "unsafe_archive"
    /\ \A p \in Procs :
         (Finished(p) /\ result[p].success /\ archive[p] # <<>>) =>
             /\ ~HasEscapingMember(p)
             /\ \A i \in 1..Len(archive[p]) :
                  LET at == member_target(result[p].extract_path, archive[p][i])
                  IN  at \in files /\ StrictlyInside(at, result[p].extract_path)

\* An archive with ../evil was refused, and an archive was unpacked.
C3_Witness ==
    /\ \E p \in Procs :
         /\ Finished(p) /\ result[p].error = "unsafe_archive"
         /\ \E i \in 1..Len(archive[p]) : Head(archive[p][i].parts) = DotDot
    /\ files # {}

\* C4: every member is validated before any is extracted: the step that refuses an
\* archive with an unsafe member writes no file at all.
C4_RejectionWritesNothing ==
    [][ \A p \in Procs :
          (pc[p] = "extract" /\ HasEscapingMember(p)) =>
              (files' = files /\ result'[p].error = "unsafe_archive") ]_vars

\* An archive whose first member is safe and whose second is not was refused.
C4_Witness ==
    \E p \in Procs :
        /\ Finished(p) /\ result[p].error = "unsafe_archive"
        /\ Len(archive[p]) >= 2
        /\ ~ResolvesOutside(archive[p][1],
                            extract_path_of(dict_name[p], latest_version[p]))

\* C5: at every point of a save, a failed one included, the metadata file holds the
\* complete previous document or the complete new one.
C5_SaveIsAtomic ==
    \A p \in Procs :
        (pc[p] = "write" \/ (Finished(p) /\ result[p].error = "save_failed")) =>
            (metaFile = metaBefore[p] \/ metaFile = Stored(metadata[p]))

\* C6: two updates of different dictionaries that both committed leave both records
\* in the metadata file.
C6_BothRecordsKept ==
    ( /\ \A p \in Procs : Finished(p) /\ result[p].status = "downloaded"
      /\ dict_name["p1"] # dict_name["p2"] ) =>
        \A p \in Procs :
            /\ metaFile.state = "ok"
            /\ dict_name[p] \in DOMAIN metaFile.doc
            /\ metaFile.doc[dict_name[p]].downloaded_at = result[p].timestamp

(***************************************************************************)
(* Properties of the update checker.                                       *)
(***************************************************************************)
\* a sorts before b as a string: a is a proper prefix of b, or the first position
\* where they differ holds the smaller character in a.
LexBefore(a, b) ==
    \/ Len(a) < Len(b) /\ \A j \in 1..Len(a) : a[j] = b[j]
    \/ \E i \in 1..Len(a) :
         /\ i <= Len(b)
         /\ a[i] < b[i]
         /\ \A j \in 1..(i - 1) : a[j] = b[j]

\* C7: a successful check reports exactly the status given by the lexical order of
\* the local and the latest token: not_installed iff there is no local record,
\* up_to_date iff equal, update_available iff local < latest, newer_than_remote iff
\* local > latest; update_available is flagged only for status update_available.
C7_StatusByLexicalOrder ==
    checkResult.status # "none" =>
        LET d == checkResult.dict_name
            hasRecord == metaFile.state = "ok" /\ d \in DOMAIN metaFile.doc
            local == IF hasRecord THEN metaFile.doc[d].version ELSE NoVersion
            latest == checkResult.latest_version
            status == checkResult.status
        IN  /\ latest \in listing[d]
            /\ \A t \in listing[d] : t = latest \/ LexBefore(t, latest)
            /\ checkResult.local_version = local
            /\ status \in {"not_installed", "up_to_date", "update_available",
                           "newer_than_remote"}
            /\ (status = "not_installed") <=> ~hasRecord
            /\ (status = "up_to_date") <=> (hasRecord /\ local = latest)
            /\ (status = "update_available") <=> (hasRecord /\ LexBefore(local, latest))
            /\ (status = "newer_than_remote") <=> (hasRecord /\ LexBefore(latest, local))
            /\ checkResult.update_available <=> (status = "update_available")

\* The four statuses, one at a time.
C7_Witness ==
    /\ checkResult.status = "newer_than_remote"
    /\ checkResult.dict_name = "revised"
    /\ checkResult.local_version # checkResult.latest_version

(***************************************************************************)
(* Properties of the query engine, checked under SpecQuery.                *)
(***************************************************************************)
Asked == word_index # NotLoaded /\ qresult # NoQuery

Asked_q == normalize(qresult.query)

Similarity(k) == ratio(k, Asked_q)

\* The keys the approximate tier may offer and the keys the prefix tier may offer.
SimilarKeys == { k \in KeySet(word_index) : AtLeast(Similarity(k), cutoff) }

PrefixKeys == { k \in KeySet(word_index) : IsPrefix(Asked_q, k) }

EntryOfKey(k) == format_entry(df[word_index.pos[k]], FALSE)

\* C8: query() tries exact, then approximate, then prefix, and answers with the
\* first tier that is not empty: exact iff the normalized query is a key, fuzzy
\* iff it is not a key and some key is similar enough, prefix iff neither and
\* some key starts with the query; with all tiers empty the result is
\* success = false, error "No matching words found", no alternatives.
C8_TiersInOrder ==
    Asked =>
      LET indexed_keys == KeySet(word_index)
          similar == SimilarKeys
          prefixed == PrefixKeys
      IN
        /\ qresult.match_type = "exact" <=> Asked_q \in indexed_keys
        /\ qresult.match_type = "fuzzy" <=>
              Asked_q \notin indexed_keys /\ similar # {}
        /\ qresult.match_type = "prefix" <=>
              Asked_q \notin indexed_keys /\ similar = {} /\ prefixed # {}
        /\ qresult.match_type = "exact" =>
              qresult.success /\ Len(qresult.primary) = 1 /\ qresult.alternatives = <<>>
        /\ qresult.match_type \in {"fuzzy", "prefix"} =>
              qresult.success /\ qresult.primary = <<>> /\ qresult.alternatives # <<>>
        /\ qresult.match_type = "fuzzy" =>
              \A i \in 1..Len(qresult.alternatives) :
                  lower(qresult.alternatives[i].word) \in similar
        /\ qresult.match_type = "prefix" =>
              \A i \in 1..Len(qresult.alternatives) :
                  lower(qresult.alternatives[i].word) \in prefixed
        /\ (Asked_q \notin indexed_keys /\ similar = {} /\ prefixed = {}) <=>
              ~qresult.success
        /\ ~qresult.success =>
              /\ qresult.error = "No matching words found"
              /\ qresult.alternatives = <<>>
              /\ qresult.primary = <<>>

\* A query answered by the approximate tier although a key also starts with it.
C8_Witness ==
    /\ Asked
    /\ qresult.match_type = "fuzzy"
    /\ PrefixKeys # {}

\* The rows the index is meant to hold: a word that is not empty after trimming.
NonEmptyRows == { i \in 1..Len(df) : df[i].word # NaN /\ strip(df[i].word) # <<>> }

LastRowOf(k) ==
    CHOOSE i \in NonEmptyRows :
        /\ normalize(df[i].word) = k
        /\ \A j \in NonEmptyRows : normalize(df[j].word) = k => j <= i

\* C9: after load the index has one key per distinct normalized word among the
\* rows whose word is not empty after trimming and no other key (no empty key);
\* each key maps to the last row with that normalized word, and an exact-match
\* query for a word returns the single entry built from that row.
C9_IndexOfNonEmptyWords ==
    word_index # NotLoaded =>
        /\ KeySet(word_index) = { normalize(df[i].word) : i \in NonEmptyRows }
        /\ <<>> \notin KeySet(word_index)
        /\ Cardinality(KeySet(word_index)) = Len(word_index.keys)
        /\ \A k \in KeySet(word_index) : word_index.pos[k] = LastRowOf(k)
        /\ (qresult # NoQuery /\ qresult.match_type = "exact") =>
              /\ Asked_q \in { normalize(df[i].word) : i \in NonEmptyRows }
              /\ Len(qresult.primary) = 1
              /\ qresult.primary[1] \in
                    { format_entry(df[LastRowOf(Asked_q)], f) : f \in BOOLEAN }

\* One character off: one substitution, one insertion or one deletion.
Without(w, i) == SubSeq(w, 1, i - 1) \o SubSeq(w, i + 1, Len(w))

OneOff(k, q) ==
    \/ Len(k) = Len(q) /\ Cardinality({ i \in 1..Len(k) : k[i] # q[i] }) = 1
    \/ \E i \in 1..Len(k) : Without(k, i) = q
    \/ \E i \in 1..Len(q) : Without(q, i) = k

\* The keys of the alternatives, in the order listed.
ListedKeys == [ i \in 1..Len(qresult.alternatives) |-> lower(qresult.alternatives[i].word) ]

Listed == { ListedKeys[i] : i \in 1..Len(ListedKeys) }

KeyPos(k) == CHOOSE i \in 1..Len(word_index.keys) : word_index.keys[i] = k

\* The alternatives are entries of distinct similar keys, as many as there are
\* up to 3, none less similar than a key left out, in descending similarity.
TopSimilar(similar) ==
    /\ Len(ListedKeys) = Min(FuzzyMax, Cardinality(similar))
    /\ Cardinality(Listed) = Len(ListedKeys)
    /\ Listed \subseteq similar
    /\ \A i \in 1..Len(ListedKeys) : qresult.alternatives[i] = EntryOfKey(ListedKeys[i])
    /\ \A k \in similar \ Listed, l \in Listed : ~Greater(Similarity(k), Similarity(l))
    /\ \A i \in 1..(Len(ListedKeys) - 1) :
          ~Greater(Similarity(ListedKeys[i + 1]), Similarity(ListedKeys[i]))

Ahead(k, l) ==
    \/ Greater(Similarity(k), Similarity(l))
    \/ Equal(Similarity(k), Similarity(l)) /\ StrLess(l, k)

C11_PrefixInInsertionOrder ==
    (Asked /\ qresult.match_type = "prefix") =>
        /\ Len(ListedKeys) = Min(PrefixMax, Cardinality(PrefixKeys))
        /\ Listed \subseteq PrefixKeys
        /\ \A i \in 1..Len(ListedKeys) : qresult.alternatives[i] = EntryOfKey(ListedKeys[i])
        /\ \A i \in 1..(Len(ListedKeys) - 1) : KeyPos(ListedKeys[i]) < KeyPos(ListedKeys[i + 1])
        /\ \A k \in PrefixKeys \ Listed, l \in Listed : KeyPos(l) < KeyPos(k)

\* More than 5 keys start with the query, 5 are listed, and a key that does
\* not start with it was inserted before one of the listed.
C11_Witness ==
    /\ Asked
    /\ qresult.match_type = "prefix"
    /\ Cardinality(PrefixKeys) > PrefixMax
    /\ Len(ListedKeys) = PrefixMax
    /\ \E k \in KeySet(word_index) \ PrefixKeys : KeyPos(k) < KeyPos(ListedKeys[PrefixMax])

(***************************************************************************)
(* Properties of version resolution.                                       *)
(***************************************************************************)
Resolved(p) == pc[p] \notin {"idle", "resolve"} /\ dict_name[p] \in SOURCES

\* C12: the latest version resolved for a configured dictionary d is taken from
\* d's own listing page with d's own pattern, by the checker and by the updater
\* alike: for the same remote state both resolve the same token, and a token
\* published only for another dictionary is never recorded as d's version.
C12_VersionFromOwnListing ==
    \A p \in Procs :
        Resolved(p) =>
            /\ latest_version[p] \in listing[dict_name[p]]
            /\ latest_version[p] = checker_latest(dict_name[p], TRUE).latest_version
            /\ pc[p] = "save" =>
                  local_version_of(metadata[p], dict_name[p]) \in listing[dict_name[p]]

\* The number a token of digits denotes.
RECURSIVE Num(_)
Num(t) == IF t = <<>> THEN 0 ELSE 10 * Num(SubSeq(t, 1, Len(t) - 1)) + t[Len(t)]

NewestOf(t, page) ==
    /\ t \in page
    /\ \A u \in page : u = t \/ LexLess(u, t)
    /\ \A u \in page : Num(u) <= Num(t)

\* C13: latest_version returns the lexically greatest token matched on the page;
\* on 8-digit tokens the lexical order agrees with the numeric order of the
\* dates, so the token returned is also the numerically newest.
C13_LatestIsNewest ==
    /\ \A d \in DICTIONARIES :
          \A a, b \in listing[d] : LexLess(a, b) <=> Num(a) < Num(b)
    /\ checkResult.latest_version # NoVersion =>
          NewestOf(checkResult.latest_version, listing[checkResult.dict_name])
    /\ \A p \in Procs :
          Resolved(p) => NewestOf(latest_version[p], listing[downloader_page(dict_name[p])])

\* Both commands have resolved a version from a page of at least three tokens.
C13_Witness ==
    /\ checkResult.latest_version # NoVersion
    /\ Cardinality(listing[checkResult.dict_name]) >= 3
    /\ Resolved("p1")
    /\ Cardinality(listing[downloader_page(dict_name["p1"])]) >= 3

(***************************************************************************)
(* Properties of check_all, checked under SpecCheckAll.                    *)
(***************************************************************************)
Installed == DOMAIN load_metadata

C15_TempFileRemoved ==
    \A p \in Procs : p \in tmpFiles => pc[p] = "extract"

\* A call that downloaded an archive and then failed to unpack it has returned.
C15_Witness ==
    /\ pc["p1"] = "idle"
    /\ result["p1"].error = "extract_failed"
    /\ downloads["p1"] = 1
    /\ "p1" \notin tmpFiles

(***************************************************************************)
(* Properties of the network requests.                                     *)
(***************************************************************************)
Verifying(context) == context.check_hostname /\ context.verify_mode = "CERT_REQUIRED"

\* C16: every network request of any component (the checker's listing fetch,
\* the updater's listing fetch, the archive download) is made with certificate
\* and host name verification enabled.
C16_EveryRequestVerified ==
    \A r \in requests : Verifying(r.context)

\* What a reader of the metadata file finds for dictionary d.
Recorded(d) == metaFile.state = "ok" /\ d \in DOMAIN metaFile.doc

\* C17: after any operation, whenever the metadata document holds a record for
\* d the directory it names holds a complete extraction of that version, never
\* one an extraction left part-way through, also after a forced re-extraction
\* into the directory of the installed version fails part-way.
C17_RecordedDirectoryComplete ==
    \A d \in SOURCES :
        (Recorded(d) /\ \A p \in Procs : pc[p] = "idle") =>
            /\ metaFile.doc[d].path \in dirs
            /\ Append(metaFile.doc[d].path, metaFile.doc[d].filename) \in files
            /\ metaFile.doc[d].path \notin halfWritten

(***************************************************************************)
(* Properties of the formatting of entries, checked under SpecQuery.       *)
(***************************************************************************)
ShortFields == {"word", "pronunciation", "definition"}

FullFields == ShortFields \cup {"part_of_speech", "examples", "additional_info"}

FieldsFor(full) == IF full THEN FullFields ELSE ShortFields

Seen(x) ==
    IF x = "checker"
    THEN IF checkResult.error = "" THEN "token" ELSE checkResult.error
    ELSE IF latest_version[x] # NoVersion THEN "token" ELSE result[x].error

\* C19: version resolution ends in one of four outcomes the caller can tell apart
\* (a token, not found, network error, unknown dictionary), for the check command
\* and for the update command: two resolutions that ended differently never show
\* their callers the same thing.
C19_OutcomesDistinguishable ==
    \A x, y \in Procs \cup {"checker"} :
        (/\ cause[x] # "none"
         /\ cause[y] # "none"
         /\ Seen(x) = Seen(y)) => cause[x] = cause[y]

\* ---------------------------------------------------------------------------
\* The table files anywhere below a directory.
TablesBelow(dir) ==
    { f \in files : StrictlyInside(f, dir) /\ f[Len(f)].x = ".xlsx" }

\* The payload the stated priority allows for an extraction of (d, version): the
\* dictionary's version-qualified file, else its canonical file, else any table
\* file of the extracted tree.
PayloadByPriority(d, version) ==
    LET extract_path == extract_path_of(d, version)
        qualified == Append(extract_path, own_versioned_filename(d, version))
        canonical == Append(extract_path, xlsx_filename(d))
    IN  IF Exists(files, dirs, qualified) THEN {qualified}
        ELSE IF Exists(files, dirs, canonical) THEN {canonical}
        ELSE TablesBelow(extract_path)

\* C20: for every dictionary and version the payload is chosen by the fixed
\* priority (that dictionary's version-qualified filename, else its canonical
\* filename, else a table file anywhere in the extracted tree), and the call fails
\* with payload-not-found only when none of the three exists.
C20_PayloadChosenByPriority ==
    \A p \in Procs :
        /\ result[p].xlsx_path # NoPath =>
              result[p].xlsx_path \in PayloadByPriority(dict_name[p], latest_version[p])
        /\ result[p].error = "payload_not_found" =>
              PayloadByPriority(dict_name[p], latest_version[p]) = {}

\* ---------------------------------------------------------------------------
\* The update command ran to its end and succeeded: an update that returned
\* success, or a check-only run that found a version.
UpdateSucceeded(p) ==
    /\ ~result[p].raised
    /\ IF result[p].status = "check_only" THEN result[p].version # NoVersion
       ELSE result[p].success

\* C21: every command exits with code 0 only when the operation it ran succeeded
\* and with a non-zero code whenever it reported or raised a failure: check,
\* update (its check-only mode included) and query, where query exits 0 iff a
\* match was found.
C21_ExitCodeTellsSuccess ==
    /\ \A p \in Procs :
          Finished(p) => (update_exit(result[p]) = 0 <=> UpdateSucceeded(p))
    /\ cause["checker"] # "none" =>
          (check_exit(checkResult) = 0 <=> checkResult.error = "")
    /\ Asked =>
          (query_exit(qresult) = 0 <=>
              qresult.match_type \in {"exact", "fuzzy", "prefix"})

\* ---------------------------------------------------------------------------
\* C22: no operation removes a version record: when update(d) has ended, every
\* other dictionary's record that the metadata file held when the call started
\* is still in the file and unchanged, whatever state the file started from.
C22_OtherRecordsKept ==
    \A p \in Procs :
        Finished(p) =>
            \A e \in DOMAIN metaBefore[p].doc \ {dict_name[p]} :
                /\ metaFile.state = "ok"
                /\ e \in DOMAIN metaFile.doc
                /\ metaFile.doc[e] = metaBefore[p].doc[e]

\* ---------------------------------------------------------------------------
\* C23: round trip: load() after a completed save(doc) returns a document equal
\* to doc, every record with the same version, downloaded_at, path and filename.
C23_LoadReturnsWhatWasSaved ==
    load_ret.read =>
        /\ DOMAIN load_ret.doc = DOMAIN save_arg
        /\ \A d \in DOMAIN save_arg, f \in RecordFields :
              load_ret.doc[d][f] = save_arg[d][f]

\* ---------------------------------------------------------------------------
\* The columns of the normalized table that carry a given name.
Named(name) == { i \in 1..Len(columns) : columns[i].name = name }

SheetNames == { sheet_columns[i] : i \in 1..Len(sheet_columns) }

\* The sheet columns that match a header by containment, in either direction.
MatchesOf(original) ==
    { i \in 1..Len(sheet_columns) : fuzzy_match(original, sheet_columns[i]) }

\* C24: after column normalization each of the six canonical fields names
\* exactly one column: the column with the exact header when the sheet has one;
\* otherwise, for a field still unresolved, the first column matching by
\* case-insensitive containment; otherwise a column created all-empty; no
\* sheet column is claimed by two fields.
C24_SixFieldsOneColumnEach ==
    columns # NotNormalized =>
        /\ \A k \in 1..Len(column_mapping) :
             LET original == column_mapping[k].original
                 standard == column_mapping[k].standard
             IN  /\ Cardinality(Named(standard)) = 1
                 /\ \A i \in Named(standard) :
                       IF original \in SheetNames
                       THEN columns[i].from # 0 /\ sheet_columns[columns[i].from] = original
                       ELSE IF standard \in SheetNames
                       THEN columns[i].from # 0 /\ sheet_columns[columns[i].from] = standard
                       ELSE IF MatchesOf(original) # {}
                       THEN columns[i].from \in MatchesOf(original)
                       ELSE columns[i].from = 0
        /\ \A i, j \in 1..Len(columns) :
              (i # j /\ columns[i].from # 0) => columns[i].from # columns[j].from

\* ---------------------------------------------------------------------------
\* The update of p has compared the versions: it goes on to download, or it has
\* returned up_to_date; the page it resolved from has not changed since.
Compared(p) ==
    /\ dict_name[p] \in SOURCES
    /\ pc[p] = "download" \/ (Finished(p) /\ result[p].status = "up_to_date")
    /\ html[p] = listing[downloader_page(dict_name[p])]

\* The update of p has committed a record.
Committed(p) ==
    /\ Finished(p)
    /\ result[p].success
    /\ result[p].status \notin {"up_to_date", "check_only"}

\* C25: update(force = false) skips the download exactly when check would report
\* up_to_date and downloads in every other status; after any successful update
\* the recorded version of the dictionary is the resolved latest token, also
\* when the version recorded before was lexically greater.
C25_SkipsExactlyWhenUpToDate ==
    \A p \in Procs :
        /\ (Compared(p) /\ ~force[p]) =>
              (result[p].status = "up_to_date" <=>
                  compare_versions(dict_name[p], TRUE).status = "up_to_date")
        /\ Committed(p) =>
              /\ dict_name[p] \in DOMAIN load_metadata
              /\ load_metadata[dict_name[p]].version = latest_version[p]

\* ---------------------------------------------------------------------------
\* The metadata file holds a record of the dictionary of p that was not there,
\* or was different, when the call of p started.
NewRecord(p) ==
    /\ dict_name[p] \in DOMAIN load_metadata
    /\ \/ dict_name[p] \notin DOMAIN metaBefore[p].doc
       \/ load_metadata[dict_name[p]] # metaBefore[p].doc[dict_name[p]]

C27_ReportedIdsAccepted ==
    \A p \in Procs :
        (/\ checkResult.status \in {"not_installed", "update_available"}
         /\ Finished(p)
         /\ dict_name[p] = checkResult.dict_name) =>
            result[p].error # "unknown_dictionary"

====
